---- MODULE Spec2Model ----
(***************************************************************************)
(* A model of providers.py: the two-tier data cache (DataCacheHandler and  *)
(* its CSV and Postgres backends), the per-provider rate limiter           *)
(* (_api_request) and the interval accessors of the AlphaVantage and FTX   *)
(* providers.                                                              *)
(*                                                                         *)
(* Timestamps are whole seconds since 2018-01-01 00:00:00 (a Monday); the  *)
(* pandas attributes the code reads (.year, .month, .day, .dayofyear,      *)
(* .week, Timedelta.seconds) are computed from them by the proleptic       *)
(* Gregorian calendar.  A DataFrame is a sequence of bars [ts, v]; the     *)
(* five OHLCV columns are always handled together by the code and are      *)
(* collapsed into the single field v.                                      *)
(***************************************************************************)
EXTENDS Integers, Sequences, FiniteSets, TLC

VARIABLES
    now,                     \* the value _now() returns
    memory_cache_size,       \* DataCacheHandler.memory_cache_size
    _memory_cache,           \* DataCacheHandler._memory_cache: key -> frame
    _memory_cache_history,   \* DataCacheHandler._memory_cache_history
    backend,                 \* which DataCacheHandler subclass is in use
    files,                   \* CSV backend: path -> frame written there
    tables,                  \* Postgres backend: interval -> rows of <ticker>_<interval>
    provider,                \* which DataProvider subclass is in use
    reqs_per_minute,         \* AVDataProvider/FTXDataProvider.reqs_per_minute
    _calls,                  \* the provider's call ledger
    sent,                    \* observer: instants at which requests.get was called
    lru,                     \* observer: cached keys by most recent access, oldest first
    steps,                   \* observer: number of operations performed so far
    last                     \* observer: what the last operation was given and did

vars == <<now, memory_cache_size, _memory_cache, _memory_cache_history, backend,
          files, tables, provider, reqs_per_minute, _calls, sent, lru, steps, last>>

memVars == <<memory_cache_size, _memory_cache, _memory_cache_history>>

storeVars == <<backend, files, tables>>

rateVars == <<provider, reqs_per_minute, _calls, sent>>

-----------------------------------------------------------------------------
(* Bounds of the model.                                                    *)

\* Largest memory_cache_size the memory-cache specification constructs.
MaxCap == 3

\* Largest reqs_per_minute the rate-limiter specification constructs.
MaxRate == 2

\* Number of _api_request calls the rate-limiter specification follows.
MaxCalls == 3

\* Number of cache operations the cache specifications follow.
MaxSteps == 3

\* Number of accessor calls the provider specification follows.
MaxAccess == 2

\* Seconds a remote call takes in the provider specification.
RemoteLatency == 2

\* Days before the current day that the slice specification requests.
MaxBack == 725

\* Days after the current day that the slice specification requests.
MaxAhead == 365

\* Body applied to the value of v: v is evaluated once, as a Python statement
\* evaluates the right-hand side of an assignment once.
With(v, Body(_)) == CHOOSE r \in {Body(x) : x \in {v}} : TRUE

-----------------------------------------------------------------------------
(* Calendar: what pandas computes for a Timestamp.                         *)

SecondsPerDay == 24 * 60 * 60

\* The year of second 0; its 1 January is a Monday.
EpochYear == 2018

IsLeap(y) == (y % 4 = 0) /\ ((y % 100 # 0) \/ (y % 400 = 0))

DaysInYear(y) == IF IsLeap(y) THEN 366 ELSE 365

MonthLengths(y) ==
    <<31, IF IsLeap(y) THEN 29 ELSE 28, 31, 30, 31, 30, 31, 31, 30, 31, 30, 31>>

RECURSIVE YearFrom(_, _)
\* The year holding day d (counted from 1 January of year y), and d's offset in it.
YearFrom(y, d) ==
    IF d < DaysInYear(y) THEN [year |-> y, doy0 |-> d]
    ELSE YearFrom(y + 1, d - DaysInYear(y))

RECURSIVE MonthFrom(_, _, _)
\* The month holding the d-th day (from 1) counted from the first day of month m.
MonthFrom(lens, m, d) ==
    IF d <= lens[m] THEN [month |-> m, day |-> d]
    ELSE MonthFrom(lens, m + 1, d - lens[m])

DayNumber(ts) == ts \div SecondsPerDay

\* The calendar fields of a Timestamp.
Civil(ts) ==
    With(YearFrom(EpochYear, DayNumber(ts)), LAMBDA yd :
    With(MonthFrom(MonthLengths(yd.year), 1, yd.doy0 + 1), LAMBDA md :
        [year |-> yd.year, month |-> md.month, day |-> md.day,
         dayofyear |-> yd.doy0 + 1]))

\* Timestamp.year
Year(ts) == YearFrom(EpochYear, DayNumber(ts)).year

\* Timestamp.dayofyear (1..366)
DayOfYear(ts) == YearFrom(EpochYear, DayNumber(ts)).doy0 + 1

\* Timestamp.month (1..12)
Month(ts) == Civil(ts).month

\* Timestamp.day (1..31)
Day(ts) == Civil(ts).day

\* Timestamp.weekday() + 1: Monday is 1, Sunday is 7.
IsoWeekday(ts) == (DayNumber(ts) % 7) + 1

\* Number of ISO weeks of a year whose 1 January falls on weekday w.
IsoWeeksInYear(w, leap) == IF w = 4 \/ (leap /\ w = 3) THEN 53 ELSE 52

\* Timestamp.week: the ISO 8601 week number (1..53)
Week(ts) ==
    With(YearFrom(EpochYear, DayNumber(ts)), LAMBDA yd :
        LET y  == yd.year
            j  == ((DayNumber(ts) - yd.doy0) % 7) + 1
            w  == (yd.doy0 + 1 - IsoWeekday(ts) + 10) \div 7
            pj == ((j - 1 - DaysInYear(y - 1)) % 7) + 1
        IN  IF w < 1 THEN IsoWeeksInYear(pj, IsLeap(y - 1))
            ELSE IF w > IsoWeeksInYear(j, IsLeap(y)) THEN 1
            ELSE w)

RECURSIVE DaysBeforeYear(_)
DaysBeforeYear(y) ==
    IF y = EpochYear THEN 0 ELSE DaysBeforeYear(y - 1) + DaysInYear(y - 1)

RECURSIVE DaysBeforeMonth(_, _)
DaysBeforeMonth(y, m) ==
    IF m = 1 THEN 0 ELSE DaysBeforeMonth(y, m - 1) + MonthLengths(y)[m - 1]

\* The timestamp of 00:00:00 on day d of month m of year y (y >= EpochYear).
Date(y, m, d) == (DaysBeforeYear(y) + DaysBeforeMonth(y, m) + (d - 1)) * SecondsPerDay

-----------------------------------------------------------------------------
(* Values.                                                                 *)

\* A function's return value: None, or a frame.
None == [isNone |-> TRUE, frame |-> << >>]

Some(f) == [isNone |-> FALSE, frame |-> f]

\* No exception was raised.
NoError == "none"

\* The empty dict / no file / no key.
EmptyMap == << >>

Intervals == {"intraday", "daily", "weekly", "monthly"}

-----------------------------------------------------------------------------
(* DataCacheHandler._get_key_by_timestamp                                  *)

\* The key derivation without the separators between day, month and year: the
\* variant the injectivity of the keys tells apart from the code.
GetKeyUnseparated(time, interval) ==
    IF interval = "daily"
    THEN [key |-> ToString(Year(time)) \o "_per_day", err |-> NoError]
    ELSE IF interval = "intraday"
    THEN With(Civil(time), LAMBDA c :
             [key |-> ToString(c.day) \o ToString(c.month)
                        \o ToString(c.year) \o "_per_minute",
              err |-> NoError])
    ELSE IF interval = "weekly" THEN [key |-> "per_week", err |-> NoError]
    ELSE IF interval = "monthly" THEN [key |-> "per_month", err |-> NoError]
    ELSE [key |-> "", err |-> "RuntimeError"]

GetKeyByTimestamp(time, interval) ==
    IF interval = "daily"
    THEN [key |-> ToString(Year(time)) \o "_per_day", err |-> NoError]
    ELSE IF interval = "intraday"
    THEN With(Civil(time), LAMBDA c :
             [key |-> ToString(c.day) \o "_" \o ToString(c.month) \o "_"
                        \o ToString(c.year) \o "_per_minute",
              err |-> NoError])
    ELSE IF interval = "weekly"
    THEN [key |-> "per_week", err |-> NoError]
    ELSE IF interval = "monthly"
    THEN [key |-> "per_month", err |-> NoError]
    ELSE [key |-> "", err |-> "RuntimeError"]

-----------------------------------------------------------------------------
(* DataCacheHandler: the memory cache.                                     *)

NoKey == ""

RECURSIVE IndexOf(_, _, _)
\* The first position at or after i where x occurs in s, or 0.
IndexOf(s, x, i) ==
    IF i > Len(s) THEN 0 ELSE IF s[i] = x THEN i ELSE IndexOf(s, x, i + 1)

\* A remove that leaves the list as it is: the variant after which a promoted
\* key stands twice in the history.
ListRemoveNothing(s, x) == s

\* list.remove(x): the list without the first occurrence of x.
ListRemove(s, x) ==
    LET i == IndexOf(s, x, 1)
    IN  SubSeq(s, 1, i - 1) \o SubSeq(s, i + 1, Len(s))

\* del d[k]
DictDel(d, k) == [x \in (DOMAIN d) \ {k} |-> d[x]]

\* A lookup that moves the key to the end of the history on every hit,
\* whether the cache is full or not: the variant of a plain LRU cache.
CheckMemoryCachePromoting(cache, history, size, key) ==
    IF key \in DOMAIN cache
    THEN IF IndexOf(history, key, 1) = 0
         THEN [ret |-> None, history |-> history, err |-> "ValueError"]
         ELSE [ret |-> Some(cache[key]),
               history |-> Append(ListRemove(history, key), key),
               err |-> NoError]
    ELSE [ret |-> None, history |-> history, err |-> NoError]

\* _check_memory_cache(key): the entry or None, and the history it leaves.
CheckMemoryCache(cache, history, size, key) ==
    IF key \in DOMAIN cache
    THEN IF Cardinality(DOMAIN cache) = size
         THEN IF IndexOf(history, key, 1) = 0
              THEN [ret |-> None, history |-> history, err |-> "ValueError"]
              ELSE [ret |-> Some(cache[key]),
                    history |-> Append(ListRemove(history, key), key),
                    err |-> NoError]
         ELSE [ret |-> Some(cache[key]), history |-> history, err |-> NoError]
    ELSE [ret |-> None, history |-> history, err |-> NoError]

\* _add_memory_cache without the purge of the oldest entry: the variant the
\* capacity bound tells apart from the code.
AddMemoryCacheNoPurge(cache, history, size, key, frame) ==
    With(CheckMemoryCache(cache, history, size, key), LAMBDA chk :
        IF chk.err # NoError
        THEN [cache |-> cache, history |-> chk.history, evicted |-> NoKey,
              err |-> chk.err]
        ELSE IF ~chk.ret.isNone
        THEN [cache |-> cache, history |-> chk.history, evicted |-> NoKey,
              err |-> NoError]
        ELSE [cache |-> (key :> frame) @@ cache,
              history |-> Append(chk.history, key),
              evicted |-> NoKey, err |-> NoError])

\* _add_memory_cache(key, frame): the cache and history it leaves, the key it
\* evicted (NoKey when none) and the exception it raised.
AddMemoryCache(cache, history, size, key, frame) ==
    With(CheckMemoryCache(cache, history, size, key), LAMBDA chk :
        IF chk.err # NoError
        THEN [cache |-> cache, history |-> chk.history, evicted |-> NoKey,
              err |-> chk.err]
        ELSE IF ~chk.ret.isNone
        THEN [cache |-> cache, history |-> chk.history, evicted |-> NoKey,
              err |-> NoError]
        ELSE IF Cardinality(DOMAIN cache) = size
        THEN IF history = << >>
             THEN [cache |-> cache, history |-> history, evicted |-> NoKey,
                   err |-> "IndexError"]
             ELSE LET old_name == Head(history)
                  IN  IF old_name \notin DOMAIN cache
                      THEN [cache |-> cache, history |-> Tail(history),
                            evicted |-> NoKey, err |-> "KeyError"]
                      ELSE [cache |-> (key :> frame) @@ DictDel(cache, old_name),
                            history |-> Append(Tail(history), key),
                            evicted |-> old_name, err |-> NoError]
        ELSE [cache |-> (key :> frame) @@ cache,
              history |-> Append(history, key),
              evicted |-> NoKey, err |-> NoError])

-----------------------------------------------------------------------------
(* The freshness test shared by both _check_persistent_cache methods.      *)

\* The freshness test with the weekly comparison made on the day of the year,
\* as the daily one is: the variant that refetches a weekly frame within its
\* week.
NeedsUpdateByDay(frame, t, time, interval) ==
    IF interval = "intraday"
    THEN [update |-> FALSE, err |-> NoError]
    ELSE IF interval = "daily"
    THEN IF Year(time) # Year(t)
         THEN [update |-> FALSE, err |-> NoError]
         ELSE IF frame = << >>
         THEN [update |-> TRUE, err |-> "IndexError"]
         ELSE [update |-> ~(DayOfYear(frame[1].ts) # DayOfYear(t)), err |-> NoError]
    ELSE IF frame = << >>
    THEN [update |-> TRUE, err |-> "IndexError"]
    ELSE IF interval = "weekly"
    THEN [update |-> ~(DayOfYear(frame[1].ts) = DayOfYear(t)), err |-> NoError]
    ELSE IF interval = "monthly"
    THEN [update |-> ~(Month(frame[1].ts) = Month(t)), err |-> NoError]
    ELSE [update |-> TRUE, err |-> NoError]

\* The value of `update' the checks compute for a frame read from the store:
\* FALSE means the frame is returned, TRUE that it is ignored. An empty frame
\* has no index[0]: reading it raises IndexError.
NeedsUpdate(frame, t, time, interval) ==
    IF interval = "intraday"
    THEN [update |-> FALSE, err |-> NoError]
    ELSE IF interval = "daily"
    THEN IF Year(time) # Year(t)
         THEN [update |-> FALSE, err |-> NoError]
         ELSE IF frame = << >>
         THEN [update |-> TRUE, err |-> "IndexError"]
         ELSE [update |-> ~(DayOfYear(frame[1].ts) # DayOfYear(t)), err |-> NoError]
    ELSE IF frame = << >>
    THEN [update |-> TRUE, err |-> "IndexError"]
    ELSE IF interval = "weekly"
    THEN [update |-> ~(Week(frame[1].ts) = Week(t)), err |-> NoError]
    ELSE IF interval = "monthly"
    THEN [update |-> ~(Month(frame[1].ts) = Month(t)), err |-> NoError]
    ELSE [update |-> TRUE, err |-> NoError]

\* The tail of both checks: a frame that needs no update is put into the
\* memory cache and returned. h is the handler's state [cache, history,
\* files, tables].
ReturnFresh(h, size, key, frame) ==
    With(AddMemoryCache(h.cache, h.history, size, key, frame), LAMBDA add :
        [h |-> [h EXCEPT !.cache = add.cache, !.history = add.history],
         ret |-> IF add.err = NoError THEN Some(frame) ELSE None,
         err |-> add.err])

-----------------------------------------------------------------------------
(* CSVDataCacheHandler                                                     *)

\* __get_csv_path, relative to cache/<ticker>.
GetCsvPath(time, interval) ==
    With(GetKeyByTimestamp(time, interval), LAMBDA k :
        IF k.err # NoError THEN [path |-> "", err |-> k.err]
        ELSE IF interval = "intraday"
        THEN With(Civil(time), LAMBDA c :
                 [path |-> ToString(c.year) \o "/" \o ToString(c.month)
                             \o "/" \o k.key \o ".csv",
                  err |-> NoError])
        ELSE IF interval = "daily"
        THEN [path |-> ToString(Year(time)) \o "/" \o k.key \o ".csv",
              err |-> NoError]
        ELSE [path |-> k.key \o ".csv", err |-> NoError])

\* csv.exists() and pd.read_csv(csv): the frame written to the file, if any.
CsvRead(fs, time, interval) ==
    With(GetCsvPath(time, interval), LAMBDA csv :
        IF csv.err = NoError /\ csv.path \in DOMAIN fs
        THEN [exists |-> TRUE, frame |-> fs[csv.path]]
        ELSE [exists |-> FALSE, frame |-> << >>])

\* CSVDataCacheHandler._check_persistent_cache at instant t.
CsvCheckPersistentCache(h, size, t, time, interval) ==
    With(GetKeyByTimestamp(time, interval), LAMBDA k :
    With(CsvRead(h.files, time, interval), LAMBDA csv :
        IF k.err # NoError THEN [h |-> h, ret |-> None, err |-> k.err]
        ELSE IF ~csv.exists
        THEN [h |-> h, ret |-> None, err |-> NoError]
        ELSE With(NeedsUpdate(csv.frame, t, time, interval), LAMBDA upd :
                 IF upd.err # NoError THEN [h |-> h, ret |-> None, err |-> upd.err]
                 ELSE IF ~upd.update THEN ReturnFresh(h, size, k.key, csv.frame)
                 ELSE [h |-> h, ret |-> None, err |-> NoError])))

\* CSVDataCacheHandler._store_persistent_cache; `fails' is a write the file
\* system refuses.
CsvStorePersistentCache(h, time, interval, data, fails) ==
    With(GetCsvPath(time, interval), LAMBDA csv :
        IF csv.err # NoError THEN [h |-> h, err |-> csv.err]
        ELSE IF fails THEN [h |-> h, err |-> "OSError"]
        ELSE [h |-> [h EXCEPT !.files = (csv.path :> data) @@ h.files],
              err |-> NoError])

-----------------------------------------------------------------------------
(* PostgresDataCacheHandler. A table is the sequence of its rows, in the   *)
(* order they were inserted, which is the order the SELECT (it has no      *)
(* ORDER BY) is taken to return them in; timestamp is its primary key.     *)

\* The WHERE clause of the query of _check_persistent_cache.
PgMatches(ts, time, interval) ==
    IF interval \in {"intraday", "daily"}
    THEN LET a == Civil(ts)
             b == Civil(time)
         IN  /\ a.year = b.year
             /\ a.month = b.month
             /\ (interval = "intraday" => a.day = b.day)
    ELSE TRUE

PgSelect(rows, time, interval) ==
    SelectSeq(rows, LAMBDA row : PgMatches(row.ts, time, interval))

\* PostgresDataCacheHandler._check_persistent_cache at instant t.
PgCheckPersistentCache(h, size, t, time, interval) ==
    IF interval \notin Intervals
    THEN [h |-> h, ret |-> None, err |-> "RuntimeError"]
    ELSE With(PgSelect(h.tables[interval], time, interval), LAMBDA frame :
         With(IF frame = << >> THEN [update |-> TRUE, err |-> NoError]
              ELSE NeedsUpdate(frame, t, time, interval), LAMBDA upd :
             IF ~upd.update
             THEN ReturnFresh(h, size, GetKeyByTimestamp(time, interval).key, frame)
             ELSE [h |-> h, ret |-> None, err |-> NoError]))

\* A plain INSERT, without the ON CONFLICT clause: the variant that stores a
\* row again when its timestamp is already in the table.
PgInsert(rows, row) == Append(rows, row)

\* INSERT ... ON CONFLICT (timestamp) DO UPDATE of one row.
PgUpsert(rows, row) ==
    IF \E i \in DOMAIN rows : rows[i].ts = row.ts
    THEN [i \in DOMAIN rows |-> IF rows[i].ts = row.ts THEN row ELSE rows[i]]
    ELSE Append(rows, row)

RECURSIVE PgUpsertAll(_, _)
PgUpsertAll(rows, data) ==
    IF data = << >> THEN rows
    ELSE PgUpsertAll(PgUpsert(rows, Head(data)), Tail(data))

\* PostgresDataCacheHandler._store_persistent_cache; `fails' is a query the
\* server refuses.
PgStorePersistentCache(h, time, interval, data, fails) ==
    IF data = << >> THEN [h |-> h, err |-> NoError]
    ELSE IF fails \/ interval \notin Intervals
    THEN [h |-> h, err |-> "DatabaseError"]
    ELSE [h |-> [h EXCEPT !.tables[interval] = PgUpsertAll(@, data)],
          err |-> NoError]

-----------------------------------------------------------------------------
(* DataCacheHandler: the two tiers together.                               *)

CheckPersistentCache(h, size, be, t, time, interval) ==
    IF be = "csv" THEN CsvCheckPersistentCache(h, size, t, time, interval)
    ELSE PgCheckPersistentCache(h, size, t, time, interval)

StorePersistentCache(h, be, time, interval, data, fails) ==
    IF be = "csv" THEN CsvStorePersistentCache(h, time, interval, data, fails)
    ELSE PgStorePersistentCache(h, time, interval, data, fails)

\* DataCacheHandler.retrieve at instant t.
Retrieve(h, size, be, t, time, interval) ==
    With(GetKeyByTimestamp(time, interval), LAMBDA k :
        IF k.err # NoError THEN [h |-> h, ret |-> None, err |-> k.err]
        ELSE With(CheckMemoryCache(h.cache, h.history, size, k.key), LAMBDA chk :
             With([h EXCEPT !.history = chk.history], LAMBDA h1 :
                 IF chk.err # NoError THEN [h |-> h1, ret |-> None, err |-> chk.err]
                 ELSE IF ~chk.ret.isNone
                 THEN [h |-> h1, ret |-> chk.ret, err |-> NoError]
                 ELSE CheckPersistentCache(h1, size, be, t, time, interval))))

\* DataCacheHandler.store.
Store(h, size, be, time, interval, data, fails) ==
    With(GetKeyByTimestamp(time, interval), LAMBDA k :
        IF k.err # NoError THEN [h |-> h, err |-> k.err]
        ELSE With(AddMemoryCache(h.cache, h.history, size, k.key, data), LAMBDA add :
             With([h EXCEPT !.cache = add.cache, !.history = add.history], LAMBDA h1 :
                 IF add.err # NoError THEN [h |-> h1, err |-> add.err]
                 ELSE StorePersistentCache(h1, be, time, interval, data, fails))))

-----------------------------------------------------------------------------
(* Observer of the memory cache: the cached keys ordered by their most     *)
(* recent access (a get that hits, or a put), oldest first.                *)

Touch(order, key) ==
    IF IndexOf(order, key, 1) = 0 THEN Append(order, key)
    ELSE Append(ListRemove(order, key), key)

Forget(order, key) ==
    IF key = NoKey \/ IndexOf(order, key, 1) = 0 THEN order
    ELSE ListRemove(order, key)

Oldest(order) == IF order = << >> THEN NoKey ELSE Head(order)

-----------------------------------------------------------------------------
(* Inputs of the specifications.                                           *)

\* 10 April 2023, 09:30:00: day-of-year 100, ISO week 15, a Monday.
T0 == Date(2023, 4, 10) + 9 * 3600 + 30 * 60

Bar(ts, v) == [ts |-> ts, v |-> v]

\* References whose keys the memory-cache specification uses.
MemRefs ==
    {<<T0, "intraday">>, <<T0, "daily">>, <<T0, "weekly">>, <<T0, "monthly">>}

MemKeys == {GetKeyByTimestamp(r[1], r[2]).key : r \in MemRefs}

MemFrames == {<<Bar(T0, 1)>>, <<Bar(T0, 2)>>}

-----------------------------------------------------------------------------
(* SpecMem: the memory cache alone, driven by arbitrary gets and puts.     *)

Idle ==
    /\ backend = "none" /\ files = EmptyMap /\ tables = EmptyMap
    /\ provider = "none" /\ reqs_per_minute = 0 /\ _calls = << >> /\ sent = << >>
    /\ steps = 0

InitMem ==
    /\ now = T0
    /\ memory_cache_size \in 0..MaxCap
    /\ _memory_cache = EmptyMap
    /\ _memory_cache_history = << >>
    /\ lru = << >>
    /\ last = [op |-> "init", key |-> NoKey, ret |-> None, err |-> NoError,
               evicted |-> NoKey, oldest |-> NoKey,
               before |-> [cache |-> EmptyMap, history |-> << >>]]
    /\ Idle

\* A call of _check_memory_cache(key).
MemGet(key) ==
    \E r \in {CheckMemoryCache(_memory_cache, _memory_cache_history,
                              memory_cache_size, key)} :
        /\ _memory_cache_history' = r.history
        /\ lru' = IF r.ret.isNone THEN lru ELSE Touch(lru, key)
        /\ last' = [op |-> "get", key |-> key, ret |-> r.ret, err |-> r.err,
                    evicted |-> NoKey, oldest |-> Oldest(lru),
                    before |-> [cache |-> _memory_cache,
                                history |-> _memory_cache_history]]
        /\ UNCHANGED <<now, memory_cache_size, _memory_cache, storeVars,
                       rateVars, steps>>

\* A call of _add_memory_cache(key, frame).
MemPut(key, frame) ==
    \E r \in {AddMemoryCache(_memory_cache, _memory_cache_history,
                            memory_cache_size, key, frame)} :
        /\ _memory_cache' = r.cache
        /\ _memory_cache_history' = r.history
        /\ lru' = IF r.err # NoError THEN lru
                  ELSE Touch(Forget(lru, r.evicted), key)
        /\ last' = [op |-> "put", key |-> key, ret |-> None, err |-> r.err,
                    evicted |-> r.evicted, oldest |-> Oldest(lru),
                    before |-> [cache |-> _memory_cache,
                                history |-> _memory_cache_history]]
        /\ UNCHANGED <<now, memory_cache_size, storeVars, rateVars, steps>>

NextMem ==
    \/ \E key \in MemKeys : MemGet(key)
    \/ \E key \in MemKeys, frame \in MemFrames : MemPut(key, frame)

SpecMem == InitMem /\ [][NextMem]_vars

-----------------------------------------------------------------------------
(* The rate limiter of AVDataProvider._api_request and                     *)
(* FTXDataProvider._api_request (the same code in both).                   *)

\* Timedelta.seconds: the seconds component, 0..86399, days left out.
TimedeltaSeconds(td) == td % SecondsPerDay

\* Call-limit bookkeeping that sleeps for the age of the oldest call instead
\* of for what is left of its minute: the variant whose suspension grows with
\* the time since the oldest call.
CallLimitWaitsAge(calls, rpm, t) ==
    IF Len(calls) >= rpm
    THEN IF calls = << >>
         THEN [calls |-> calls, slept |-> 0, err |-> "IndexError"]
         ELSE LET oldest_call == Head(calls)
                  to_wait == TimedeltaSeconds(t - oldest_call)
              IN  [calls |-> Tail(calls),
                   slept |-> IF to_wait >= 0 THEN to_wait + 1 ELSE 0,
                   err |-> NoError]
    ELSE [calls |-> calls, slept |-> 0, err |-> NoError]

\* Call-limit bookkeeping that leaves the oldest call in a full ledger: the
\* variant whose ledger grows with every call.
CallLimitKeepsOldest(calls, rpm, t) ==
    IF Len(calls) >= rpm
    THEN IF calls = << >>
         THEN [calls |-> calls, slept |-> 0, err |-> "IndexError"]
         ELSE LET oldest_call == Head(calls)
                  to_wait == 60 - TimedeltaSeconds(t - oldest_call)
              IN  [calls |-> calls,
                   slept |-> IF to_wait >= 0 THEN to_wait + 1 ELSE 0,
                   err |-> NoError]
    ELSE [calls |-> calls, slept |-> 0, err |-> NoError]

\* The call-limit bookkeeping before the remote call, entered at instant t:
\* the ledger it leaves, the seconds it slept and the exception it raised.
CallLimit(calls, rpm, t) ==
    IF Len(calls) >= rpm
    THEN IF calls = << >>
         THEN [calls |-> calls, slept |-> 0, err |-> "IndexError"]
         ELSE LET oldest_call == Head(calls)
                  to_wait == 60 - TimedeltaSeconds(t - oldest_call)
              IN  [calls |-> Tail(calls),
                   slept |-> IF to_wait >= 0 THEN to_wait + 1 ELSE 0,
                   err |-> NoError]
    ELSE [calls |-> calls, slept |-> 0, err |-> NoError]

\* An _api_request that catches what the remote call raises and returns an
\* empty frame in its place: the variant that hides a failed fetch.
ApiRequestQuiet(calls, rpm, t, latency, raises, frame) ==
    With(CallLimit(calls, rpm, t), LAMBDA lim :
    With(t + lim.slept, LAMBDA at :
        IF lim.err # NoError
        THEN [calls |-> lim.calls, sentAt |-> -1, now |-> t, slept |-> 0,
              frame |-> << >>, err |-> lim.err]
        ELSE [calls |-> Append(lim.calls, at + latency), sentAt |-> at,
              now |-> at + latency, slept |-> lim.slept,
              frame |-> IF raises THEN << >> ELSE frame, err |-> NoError]))

\* _api_request entered at instant t. The remote call takes `latency' seconds and
\* either returns `frame' or raises (the request or the parsing of its response).
\* Yields the ledger left, the instant requests.get was called (-1: never), the
\* instant the function is left, the seconds slept, the frame and the exception.
ApiRequest(calls, rpm, t, latency, raises, frame) ==
    With(CallLimit(calls, rpm, t), LAMBDA lim :
    With(t + lim.slept, LAMBDA at :
        IF lim.err # NoError
        THEN [calls |-> lim.calls, sentAt |-> -1, now |-> t, slept |-> 0,
              frame |-> << >>, err |-> lim.err]
        ELSE IF raises
        THEN [calls |-> lim.calls, sentAt |-> at, now |-> at + latency,
              slept |-> lim.slept, frame |-> << >>, err |-> "RemoteError"]
        ELSE [calls |-> Append(lim.calls, at + latency), sentAt |-> at,
              now |-> at + latency, slept |-> lim.slept, frame |-> frame,
              err |-> NoError]))

-----------------------------------------------------------------------------
(* SpecRate: one provider's _api_request calls and the passing of time.    *)

\* Seconds by which the clock advances between two calls.
Ticks == {1, 61, SecondsPerDay + 10}

\* Seconds a remote call takes.
Latencies == {0, 2}

InitRate ==
    /\ now = T0
    /\ reqs_per_minute \in 1..MaxRate
    /\ provider \in {"av", "ftx"}
    /\ _calls = << >>
    /\ sent = << >>
    /\ last = [op |-> "init", slept |-> 0, err |-> NoError, age |-> 0,
               before |-> << >>, failed |-> FALSE, proceeded |-> FALSE]
    /\ memory_cache_size = 0 /\ _memory_cache = EmptyMap
    /\ _memory_cache_history = << >> /\ lru = << >>
    /\ backend = "none" /\ files = EmptyMap /\ tables = EmptyMap
    /\ steps = 0

\* Time passes between two calls.
RateTick(d) ==
    /\ last.op # "tick"
    /\ now' = now + d
    /\ last' = [last EXCEPT !.op = "tick", !.slept = 0, !.err = NoError]
    /\ UNCHANGED <<memVars, storeVars, rateVars, lru, steps>>

\* A call of _api_request.
RateCall(latency, raises) ==
    \E r \in {ApiRequest(_calls, reqs_per_minute, now, latency, raises, << >>)} :
        /\ Len(sent) < MaxCalls
        /\ _calls' = r.calls
        /\ now' = r.now
        /\ sent' = IF r.sentAt < 0 THEN sent ELSE Append(sent, r.sentAt)
        /\ last' = [op |-> "api_request", slept |-> r.slept, err |-> r.err,
                    age |-> IF Len(_calls) >= reqs_per_minute /\ _calls # << >>
                            THEN now - Head(_calls) ELSE -1,
                    before |-> _calls,
                    failed |-> last.failed \/ r.err # NoError,
                    proceeded |-> r.sentAt >= 0]
        /\ UNCHANGED <<memVars, storeVars, provider, reqs_per_minute, lru, steps>>

NextRate ==
    \/ \E d \in Ticks : RateTick(d)
    \/ \E latency \in Latencies, raises \in BOOLEAN : RateCall(latency, raises)

SpecRate == InitRate /\ [][NextRate]_vars

-----------------------------------------------------------------------------
(* Inputs of the cache specifications.                                     *)

\* The spacing of the bars of an interval kind.
BarSpacing(interval) ==
    IF interval = "intraday" THEN 60
    ELSE IF interval = "daily" THEN SecondsPerDay
    ELSE IF interval = "weekly" THEN 7 * SecondsPerDay
    ELSE 30 * SecondsPerDay

\* Two frames of the period of `time', newest bar first, that share the bar at
\* `time' with different values.
F1(time, interval) == <<Bar(time, 1), Bar(time - BarSpacing(interval), 1)>>

F2(time, interval) == <<Bar(time + BarSpacing(interval), 2), Bar(time, 2)>>

\* The instants the clock takes: T0; the next day (day-of-year 101, same
\* week and month); 30 days on (10 May 2023, week 19); 365 days on (9 April
\* 2024, again day-of-year 100, week 15, month 4).
Clock == {T0, T0 + SecondsPerDay, T0 + 30 * SecondsPerDay, T0 + 365 * SecondsPerDay}

Handler == [cache |-> _memory_cache, history |-> _memory_cache_history,
            files |-> files, tables |-> tables]

\* The handler's variables take the values of record h.
HandlerBecomes(h) ==
    /\ _memory_cache' = h.cache
    /\ _memory_cache_history' = h.history
    /\ files' = h.files
    /\ tables' = h.tables

\* The state a newly constructed handler of the given backend starts from.
InitHandler ==
    /\ backend \in {"csv", "postgres"}
    /\ _memory_cache = EmptyMap
    /\ _memory_cache_history = << >>
    /\ files = EmptyMap
    /\ tables = IF backend = "postgres" THEN [i \in Intervals |-> << >>] ELSE EmptyMap

\* Observer: the bars the persistent store holds under the key of (time, interval).
Persisted(fs, tabs, be, time, interval) ==
    IF be = "csv"
    THEN LET f == CsvRead(fs, time, interval).frame
         IN  {f[i] : i \in DOMAIN f}
    ELSE LET rows == tabs[interval]
         IN  {rows[i] : i \in {j \in DOMAIN rows :
                 GetKeyByTimestamp(rows[j].ts, interval).key
                     = GetKeyByTimestamp(time, interval).key}}

\* Observer: the frame _check_persistent_cache reads for (time, interval).
Found(fs, tabs, be, time, interval) ==
    IF be = "csv" THEN CsvRead(fs, time, interval).frame
    ELSE PgSelect(tabs[interval], time, interval)

-----------------------------------------------------------------------------
(* SpecPersist: the persistent tier of either backend, driven by direct    *)
(* calls of _store_persistent_cache and _check_persistent_cache.           *)

\* DataCacheHandler.__init__'s default memory_cache_size.
DefaultMemoryCacheSize == 10

PersistRefs == {<<T0, i>> : i \in Intervals}

PersistFrames(time, interval) == {<< >>, F1(time, interval), F2(time, interval)}

InitPersist ==
    /\ now = T0
    /\ memory_cache_size = DefaultMemoryCacheSize
    /\ InitHandler
    /\ lru = << >>
    /\ steps = 0
    /\ last = [op |-> "init", at |-> T0, time |-> T0, interval |-> "daily",
               data |-> << >>, ret |-> None, err |-> NoError, before |-> {},
               found |-> << >>, existed |-> FALSE, repeat |-> FALSE]
    /\ provider = "none" /\ reqs_per_minute = 0 /\ _calls = << >> /\ sent = << >>

\* A call of _store_persistent_cache(time, interval, data). `last' keeps what
\* was persisted under the key before it, whether the CSV file existed, and
\* whether the call repeats the call before it.
PersistStore(time, interval, data) ==
    \E r \in {StorePersistentCache(Handler, backend, time, interval, data, FALSE)} :
        /\ steps < MaxSteps
        /\ steps' = steps + 1
        /\ HandlerBecomes(r.h)
        /\ last' = [op |-> "store_persistent", at |-> now, time |-> time,
                    interval |-> interval,
                    data |-> data, ret |-> None, err |-> r.err,
                    before |-> Persisted(files, tables, backend, time, interval),
                    found |-> << >>,
                    existed |-> CsvRead(files, time, interval).exists,
                    repeat |-> /\ last.op = "store_persistent"
                               /\ last.err = NoError
                               /\ last.time = time
                               /\ last.interval = interval
                               /\ last.data = data]
        /\ UNCHANGED <<now, memory_cache_size, backend, rateVars, lru>>

\* A call of _check_persistent_cache(time, interval).
PersistCheck(time, interval) ==
    \E r \in {CheckPersistentCache(Handler, memory_cache_size, backend, now,
                                  time, interval)} :
        /\ steps < MaxSteps
        /\ steps' = steps + 1
        /\ HandlerBecomes(r.h)
        /\ last' = [op |-> "check_persistent", at |-> now, time |-> time,
                    interval |-> interval,
                    data |-> << >>, ret |-> r.ret, err |-> r.err,
                    before |-> Persisted(files, tables, backend, time, interval),
                    found |-> Found(files, tables, backend, time, interval),
                    existed |-> CsvRead(files, time, interval).exists,
                    repeat |-> FALSE]
        /\ UNCHANGED <<now, memory_cache_size, backend, rateVars, lru>>

\* Time passes between two calls.
ClockTick ==
    /\ \E t \in Clock : t > now /\ now' = t
    /\ UNCHANGED <<memVars, storeVars, rateVars, lru, steps, last>>

NextPersist ==
    \/ \E r \in PersistRefs : \E data \in PersistFrames(r[1], r[2]) :
          PersistStore(r[1], r[2], data)
    \/ \E r \in PersistRefs : PersistCheck(r[1], r[2])
    \/ ClockTick

SpecPersist == InitPersist /\ [][NextPersist]_vars

-----------------------------------------------------------------------------
(* SpecCache: a DataCacheHandler of either backend, driven by retrieve and *)
(* store.                                                                  *)

CacheRefs == {<<T0, i>> : i \in Intervals}

\* What a store is given: the data, and whether the persistent write is refused.
CacheStores(time, interval) ==
    {[data |-> << >>, fails |-> FALSE],
     [data |-> F1(time, interval), fails |-> FALSE],
     [data |-> F1(time, interval), fails |-> TRUE]}

CacheClock == {T0, T0 + SecondsPerDay}

InitCache ==
    /\ now = T0
    /\ memory_cache_size \in 1..MaxCap
    /\ InitHandler
    /\ lru = << >>
    /\ steps = 0
    /\ last = [op |-> "init", at |-> T0, time |-> T0, interval |-> "daily",
               data |-> << >>, ret |-> None, err |-> NoError]
    /\ provider = "none" /\ reqs_per_minute = 0 /\ _calls = << >> /\ sent = << >>

\* A call of retrieve(time, interval).
CacheRetrieve(time, interval) ==
    \E r \in {Retrieve(Handler, memory_cache_size, backend, now, time, interval)} :
        /\ steps < MaxSteps
        /\ steps' = steps + 1
        /\ HandlerBecomes(r.h)
        /\ last' = [op |-> "retrieve", at |-> now, time |-> time,
                    interval |-> interval, data |-> << >>, ret |-> r.ret,
                    err |-> r.err]
        /\ UNCHANGED <<now, memory_cache_size, backend, rateVars, lru>>

\* A call of store(time, interval, data); `fails' is a persistent write that
\* the file system or the database server refuses.
CacheStore(time, interval, data, fails) ==
    \E r \in {Store(Handler, memory_cache_size, backend, time, interval, data, fails)} :
        /\ steps < MaxSteps
        /\ steps' = steps + 1
        /\ HandlerBecomes(r.h)
        /\ last' = [op |-> "store", at |-> now, time |-> time,
                    interval |-> interval, data |-> data, ret |-> None,
                    err |-> r.err]
        /\ UNCHANGED <<now, memory_cache_size, backend, rateVars, lru>>

\* Time passes between two calls.
CacheTick ==
    /\ \E t \in CacheClock : t > now /\ now' = t
    /\ UNCHANGED <<memVars, storeVars, rateVars, lru, steps, last>>

NextCache ==
    \/ \E r \in CacheRefs : CacheRetrieve(r[1], r[2])
    \/ \E r \in CacheRefs : \E in \in CacheStores(r[1], r[2]) :
          CacheStore(r[1], r[2], in.data, in.fails)
    \/ CacheTick

SpecCache == InitCache /\ [][NextCache]_vars

-----------------------------------------------------------------------------
(* The providers: the interval accessors of AVDataProvider and of          *)
(* FTXDataProvider.                                                        *)

RECURSIVE InsertByTs(_, _)
InsertByTs(sorted, bar) ==
    IF sorted = << >> \/ bar.ts < Head(sorted).ts THEN <<bar>> \o sorted
    ELSE <<Head(sorted)>> \o InsertByTs(Tail(sorted), bar)

RECURSIVE SortByTs(_)
\* The frame in ascending index order, as groupby(sort=True) takes it.
SortByTs(frame) ==
    IF frame = << >> THEN << >> ELSE InsertByTs(SortByTs(Tail(frame)), Head(frame))

\* The bin of a timestamp: its day for pd.Grouper(freq='D'), its year for freq='Y'.
BinOf(ts, freq) == IF freq = "D" THEN DayNumber(ts) ELSE Year(ts)

\* The label of a bin: the day's midnight, or the year's 31 December.
BinLabel(bin, freq) == IF freq = "D" THEN bin * SecondsPerDay ELSE Date(bin, 12, 31)

\* A grouping that labels the bins but hands every bin the whole frame: the
\* variant that lets bars of other periods leak into a stored fragment.
GroupByWhole(frame, freq) ==
    IF frame = << >> THEN << >>
    ELSE With(SortByTs(frame), LAMBDA sorted :
         With(BinOf(sorted[1].ts, freq), LAMBDA lo :
         With(BinOf(sorted[Len(sorted)].ts, freq), LAMBDA hi :
             [k \in 1..(hi - lo + 1) |->
                 [date |-> BinLabel(lo + k - 1, freq), group |-> sorted]])))

\* request_frame.groupby(pd.Grouper(freq=...)): one (date, group) per bin from
\* the first bar's to the last bar's, in order, the empty bins between them
\* included; an empty frame yields no group.
GroupBy(frame, freq) ==
    IF frame = << >> THEN << >>
    ELSE With(SortByTs(frame), LAMBDA sorted :
         With(BinOf(sorted[1].ts, freq), LAMBDA lo :
         With(BinOf(sorted[Len(sorted)].ts, freq), LAMBDA hi :
             [k \in 1..(hi - lo + 1) |->
                 [date |-> BinLabel(lo + k - 1, freq),
                  group |-> SelectSeq(sorted,
                               LAMBDA bar : BinOf(bar.ts, freq) = lo + k - 1)]])))

RECURSIVE StoreAll(_, _, _, _)
\* for date, group in ...: self.cache_handler.store(date, interval, group)
StoreAll(h, groups, interval, fails) ==
    IF groups = << >> THEN [h |-> h, err |-> NoError]
    ELSE With(Store(h, memory_cache_size, backend, Head(groups).date,
                    interval, Head(groups).group, fails), LAMBDA st :
             IF st.err # NoError THEN st
             ELSE StoreAll(st.h, Tail(groups), interval, fails))

\* What an accessor call leaves: the handler state, the ledger, the clock, the
\* instant of its remote call (-1: none), the number of cache_handler.retrieve
\* calls it made, its result and its exception.
Outcome(h, calls, t, sentAt, reads, ret, err) ==
    [h |-> h, calls |-> calls, now |-> t, sentAt |-> sentAt, reads |-> reads,
     ret |-> ret, err |-> err]

\* An accessor that goes to the vendor without returning on a cache hit: the
\* variant that spends a remote call on data it already holds.
FetchAlways(h, calls, t, time, interval, freq, checksEmpty, remote) ==
    With(Retrieve(h, memory_cache_size, backend, t, time, interval), LAMBDA first :
        IF first.err # NoError
        THEN Outcome(first.h, calls, t, -1, 1, first.ret, first.err)
        ELSE
        With(ApiRequest(calls, reqs_per_minute, t, remote.latency,
                        remote.raises, remote.frame), LAMBDA req :
            IF req.err # NoError
            THEN Outcome(first.h, req.calls, req.now, req.sentAt, 1, None, req.err)
            ELSE IF checksEmpty /\ req.frame = << >>
            THEN Outcome(first.h, req.calls, req.now, req.sentAt, 1, None, NoError)
            ELSE
            With(IF freq = "" THEN <<[date |-> req.now, group |-> req.frame]>>
                 ELSE GroupBy(req.frame, freq), LAMBDA groups :
            With(StoreAll(first.h, groups, interval, remote.fails), LAMBDA st :
                IF st.err # NoError
                THEN Outcome(st.h, req.calls, req.now, req.sentAt, 1, None, st.err)
                ELSE
                With(Retrieve(st.h, memory_cache_size, backend, req.now,
                              IF freq = "" THEN req.now ELSE time, interval),
                     LAMBDA again :
                    Outcome(again.h, req.calls, req.now, req.sentAt, 2,
                            again.ret, again.err))))))

\* The shape all eight accessors share. `time' is the requested reference,
\* `freq' the grouping of the fetched frame ("" when it is stored whole, under
\* the current instant) and `checksEmpty' whether the accessor returns None
\* on an empty fetched frame. `remote' is what the vendor and the store do
\* during the call: [raises, frame, latency, fails].
FetchCacheRetry(h, calls, t, time, interval, freq, checksEmpty, remote) ==
    With(Retrieve(h, memory_cache_size, backend, t, time, interval), LAMBDA first :
        IF first.err # NoError \/ ~first.ret.isNone
        THEN Outcome(first.h, calls, t, -1, 1, first.ret, first.err)
        ELSE
        With(ApiRequest(calls, reqs_per_minute, t, remote.latency,
                        remote.raises, remote.frame), LAMBDA req :
            IF req.err # NoError
            THEN Outcome(first.h, req.calls, req.now, req.sentAt, 1, None, req.err)
            ELSE IF checksEmpty /\ req.frame = << >>
            THEN Outcome(first.h, req.calls, req.now, req.sentAt, 1, None, NoError)
            ELSE
            With(IF freq = "" THEN <<[date |-> req.now, group |-> req.frame]>>
                 ELSE GroupBy(req.frame, freq), LAMBDA groups :
            With(StoreAll(first.h, groups, interval, remote.fails), LAMBDA st :
                IF st.err # NoError
                THEN Outcome(st.h, req.calls, req.now, req.sentAt, 1, None, st.err)
                ELSE
                With(Retrieve(st.h, memory_cache_size, backend, req.now,
                              IF freq = "" THEN req.now ELSE time, interval),
                     LAMBDA again :
                    Outcome(again.h, req.calls, req.now, req.sentAt, 2,
                            again.ret, again.err))))))

AvIntraday(h, calls, t, day, remote) ==
    FetchCacheRetry(h, calls, t, day, "intraday", "D", TRUE, remote)

AvDaily(h, calls, t, year, remote) ==
    FetchCacheRetry(h, calls, t, year, "daily", "Y", FALSE, remote)

AvWeekly(h, calls, t, remote) ==
    FetchCacheRetry(h, calls, t, t, "weekly", "", FALSE, remote)

AvMonthly(h, calls, t, remote) ==
    FetchCacheRetry(h, calls, t, t, "monthly", "", FALSE, remote)

FtxIntraday(h, calls, t, day, remote) ==
    FetchCacheRetry(h, calls, t, day, "intraday", "D", TRUE, remote)

FtxDaily(h, calls, t, year, remote) ==
    FetchCacheRetry(h, calls, t, year, "daily", "Y", TRUE, remote)

FtxWeekly(h, calls, t, remote) ==
    FetchCacheRetry(h, calls, t, t, "weekly", "", TRUE, remote)

FtxMonthly(h, calls, t, remote) ==
    FetchCacheRetry(h, calls, t, t, "monthly", "", TRUE, remote)

-----------------------------------------------------------------------------
(* Spec: a provider with its cache handler, driven by calls of the four    *)
(* interval accessors and the passing of time.                             *)

\* AVDataProvider.__init__'s and FTXDataProvider.__init__'s default reqs_per_minute.
AvReqsPerMinute == 5

FtxReqsPerMinute == 60

TwoDays == 2 * SecondsPerDay

OneYear == 365 * SecondsPerDay

\* The references the accessors are called with.
Requests(interval) ==
    IF interval = "intraday" THEN {T0, T0 - TwoDays}
    ELSE IF interval = "daily" THEN {T0, T0 - OneYear}
    ELSE {T0}

\* The series the vendor may return at instant t: none, one period's bars, and
\* for intraday and daily bars of two periods.
RemoteFrames(interval, t) ==
    IF interval = "intraday"
    THEN {<< >>, F1(T0, interval), <<Bar(T0, 1), Bar(T0 - TwoDays, 1)>>}
    ELSE IF interval = "daily"
    THEN {<< >>, F1(t, interval), <<Bar(t, 1), Bar(t - OneYear, 1)>>}
    ELSE {<< >>, F1(t, interval)}

\* What may happen during an accessor call that reaches the remote call: the
\* remote call raises; or it returns one of the series, and the persistent
\* writes that follow succeed; or it returns one period's bars and the
\* persistent write is refused.
Remotes(interval, t) ==
    {[raises |-> TRUE, frame |-> << >>, latency |-> RemoteLatency, fails |-> FALSE],
     [raises |-> FALSE, frame |-> F1(IF interval = "intraday" THEN T0 ELSE t, interval),
      latency |-> RemoteLatency, fails |-> TRUE]}
    \cup {[raises |-> FALSE, frame |-> f, latency |-> RemoteLatency, fails |-> FALSE] :
             f \in RemoteFrames(interval, t)}

\* The instants the clock takes in the provider specification: T0 and 30 days
\* on (another day-of-year, week and month).
ProviderClock == {T0, T0 + 30 * SecondsPerDay}

NoRemote == [raises |-> FALSE, frame |-> << >>, latency |-> 0, fails |-> FALSE]

\* Whether the accessor's first cache read misses, so that it goes remote.
Misses(time, interval) ==
    \E r \in {Retrieve(Handler, memory_cache_size, backend, now, time, interval)} :
        r.err = NoError /\ r.ret.isNone

Init ==
    /\ now = T0
    /\ provider \in {"av", "ftx"}
    /\ reqs_per_minute = IF provider = "av" THEN AvReqsPerMinute ELSE FtxReqsPerMinute
    /\ _calls = << >>
    /\ sent = << >>
    /\ memory_cache_size = DefaultMemoryCacheSize
    /\ InitHandler
    /\ lru = << >>
    /\ steps = 0
    /\ last = [op |-> "init", at |-> T0, time |-> T0, ret |-> None, err |-> NoError,
               fetched |-> FALSE, remote |-> NoRemote, before |-> Handler,
               ledger |-> << >>, sentBefore |-> 0, reads |-> 0,
               first |-> [ret |-> None, err |-> NoError]]

\* The call `op' of an accessor, made at `now' with reference `time', did `out'.
\* `last' keeps what the call saw and did: the handler and the ledger before
\* it, the number of remote calls sent before it, what a cache read returned
\* when it started, the number of cache reads it made and its result.
Accessed(op, time, remote, out) ==
    /\ steps < MaxAccess
    /\ steps' = steps + 1
    /\ HandlerBecomes(out.h)
    /\ _calls' = out.calls
    /\ now' = out.now
    /\ sent' = IF out.sentAt < 0 THEN sent ELSE Append(sent, out.sentAt)
    /\ \E first \in {Retrieve(Handler, memory_cache_size, backend, now, time, op)} :
          last' = [op |-> op, at |-> now, time |-> time, ret |-> out.ret,
                   err |-> out.err, fetched |-> out.sentAt >= 0, remote |-> remote,
                   before |-> Handler, ledger |-> _calls,
                   sentBefore |-> Len(sent), reads |-> out.reads,
                   first |-> [ret |-> first.ret, err |-> first.err]]
    /\ UNCHANGED <<memory_cache_size, backend, provider, reqs_per_minute, lru>>

\* A call of intraday(day).
Intraday(day) ==
    \E remote \in IF Misses(day, "intraday") THEN Remotes("intraday", now)
                  ELSE {NoRemote} :
    \E out \in {IF provider = "av" THEN AvIntraday(Handler, _calls, now, day, remote)
                ELSE FtxIntraday(Handler, _calls, now, day, remote)} :
        Accessed("intraday", day, remote, out)

\* A call of daily(year).
Daily(year) ==
    \E remote \in IF Misses(year, "daily") THEN Remotes("daily", now)
                  ELSE {NoRemote} :
    \E out \in {IF provider = "av" THEN AvDaily(Handler, _calls, now, year, remote)
                ELSE FtxDaily(Handler, _calls, now, year, remote)} :
        Accessed("daily", year, remote, out)

\* A call of weekly().
Weekly ==
    \E remote \in IF Misses(now, "weekly") THEN Remotes("weekly", now)
                  ELSE {NoRemote} :
    \E out \in {IF provider = "av" THEN AvWeekly(Handler, _calls, now, remote)
                ELSE FtxWeekly(Handler, _calls, now, remote)} :
        Accessed("weekly", now, remote, out)

\* A call of monthly().
Monthly ==
    \E remote \in IF Misses(now, "monthly") THEN Remotes("monthly", now)
                  ELSE {NoRemote} :
    \E out \in {IF provider = "av" THEN AvMonthly(Handler, _calls, now, remote)
                ELSE FtxMonthly(Handler, _calls, now, remote)} :
        Accessed("monthly", now, remote, out)

\* The program is started again: the handler and the provider are constructed
\* anew over the persistent store the earlier run left.
Restart ==
    /\ _memory_cache # EmptyMap \/ _calls # << >>
    /\ _memory_cache' = EmptyMap
    /\ _memory_cache_history' = << >>
    /\ _calls' = << >>
    /\ last' = [last EXCEPT !.op = "restart"]
    /\ UNCHANGED <<now, memory_cache_size, storeVars, provider, reqs_per_minute,
                   sent, lru, steps>>

\* Time passes between two calls.
ProviderTick ==
    /\ \E t \in ProviderClock : t > now /\ now' = t
    /\ UNCHANGED <<memVars, storeVars, rateVars, lru, steps, last>>

Next ==
    \/ \E day \in Requests("intraday") : Intraday(day)
    \/ \E year \in Requests("daily") : Daily(year)
    \/ Weekly
    \/ Monthly
    \/ Restart
    \/ ProviderTick

Spec == Init /\ [][Next]_vars

-----------------------------------------------------------------------------
(* SpecKey: _get_key_by_timestamp applied to pairs of inputs.              *)

\* Reference instants: two of one day, days whose day and month numbers swap
\* or concatenate alike, and the same day of another year.
KeyTimes ==
    {T0, T0 + 3600, Date(2023, 10, 4), Date(2023, 1, 11), Date(2023, 11, 1),
     Date(2024, 4, 10)}

\* The four supported interval values and one that is not.
KeyIntervals == Intervals \cup {"hourly"}

InitKey ==
    /\ now = T0
    /\ \E t1 \in KeyTimes, t2 \in KeyTimes, i1 \in KeyIntervals, i2 \in KeyIntervals :
          last = [op |-> "init", time1 |-> t1, interval1 |-> i1, time2 |-> t2,
                  interval2 |-> i2, key1 |-> NoKey, err1 |-> NoError,
                  key2 |-> NoKey, err2 |-> NoError]
    /\ memory_cache_size = DefaultMemoryCacheSize
    /\ _memory_cache = EmptyMap /\ _memory_cache_history = << >> /\ lru = << >>
    /\ backend = "none" /\ files = EmptyMap /\ tables = EmptyMap
    /\ provider = "none" /\ reqs_per_minute = 0 /\ _calls = << >> /\ sent = << >>
    /\ steps = 0

\* Two calls of _get_key_by_timestamp, one per input.
KeyDerive ==
    /\ last.op = "init"
    /\ \E k1 \in {GetKeyByTimestamp(last.time1, last.interval1)} :
       \E k2 \in {GetKeyByTimestamp(last.time2, last.interval2)} :
          last' = [last EXCEPT !.op = "get_key", !.key1 = k1.key, !.err1 = k1.err,
                               !.key2 = k2.key, !.err2 = k2.err]
    /\ UNCHANGED <<now, memVars, storeVars, rateVars, lru, steps>>

NextKey == KeyDerive

SpecKey == InitKey /\ [][NextKey]_vars

-----------------------------------------------------------------------------
(* SpecAll: one run of access_all, an accessor call at a time. The vendor  *)
(* returns an empty series to every request.                               *)

\* periods of the date_range of access_all.
AccessAllPeriods == 360 * 2 - 1

\* pd.date_range(end=end, freq='D', periods=periods), ascending.
DateRange(end, periods) ==
    [k \in 1..periods |-> end - (periods - k) * SecondsPerDay]

\* Timestamp.floor('d').
Floor(ts) == DayNumber(ts) * SecondsPerDay

\* The days access_all iterates over, computed from the instant it started at.
AccessAllDays(prov, start) ==
    DateRange(IF prov = "av" THEN start ELSE Floor(start), AccessAllPeriods)

\* Whether access_all calls intraday for the day: day.weekday() <= 4 for
\* AVDataProvider, always for FTXDataProvider.
Relevant(prov, day) == prov = "ftx" \/ IsoWeekday(day) <= 5

\* first() and latest() at instant t.
First(prov, t) ==
    IF prov = "av" THEN t - (720 - 1) * SecondsPerDay
    ELSE t - (360 * 2 - 1) * SecondsPerDay

Latest(prov, t) == t - 1 * SecondsPerDay

\* The vendor's answer in this specification: an empty series.
EmptyRemote ==
    [raises |-> FALSE, frame |-> << >>, latency |-> RemoteLatency, fails |-> FALSE]

\* The instants access_all starts at: a Monday morning, the Saturday of that
\* week, and a midnight.
AllStarts == {T0, T0 + 5 * SecondsPerDay, Floor(T0)}

InitAll ==
    /\ now \in AllStarts
    /\ provider \in {"av", "ftx"}
    /\ reqs_per_minute = IF provider = "av" THEN AvReqsPerMinute ELSE FtxReqsPerMinute
    /\ _calls = << >>
    /\ sent = << >>
    /\ memory_cache_size = DefaultMemoryCacheSize
    /\ InitHandler
    /\ lru = << >>
    /\ steps = 0
    /\ last = [op |-> "init", start |-> now, k |-> 0, trace |-> << >>,
               done |-> FALSE, err |-> NoError]

\* access_all called the accessor `op' with `arg', which did `out'; k is the
\* number of days of the loop gone through. `last.trace' lists the accessor
\* calls access_all has made.
AllCalled(op, arg, start, k, out) ==
    /\ HandlerBecomes(out.h)
    /\ _calls' = out.calls
    /\ now' = out.now
    /\ sent' = IF out.sentAt < 0 THEN sent ELSE Append(sent, out.sentAt)
    /\ steps' = steps + 1
    /\ last' = [op |-> op, start |-> start, k |-> k,
                trace |-> Append(last.trace, [op |-> op, arg |-> arg]),
                done |-> FALSE, err |-> out.err]
    /\ UNCHANGED <<memory_cache_size, backend, provider, reqs_per_minute, lru>>

\* now = _now(); self.monthly()
AllMonthly ==
    /\ last.op = "init"
    /\ \E out \in {IF provider = "av"
                   THEN AvMonthly(Handler, _calls, now, EmptyRemote)
                   ELSE FtxMonthly(Handler, _calls, now, EmptyRemote)} :
          AllCalled("monthly", now, now, 0, out)

\* self.weekly()
AllWeekly ==
    /\ last.op = "monthly" /\ last.err = NoError
    /\ \E out \in {IF provider = "av"
                   THEN AvWeekly(Handler, _calls, now, EmptyRemote)
                   ELSE FtxWeekly(Handler, _calls, now, EmptyRemote)} :
          AllCalled("weekly", now, last.start, 0, out)

\* self.daily(now)
AllDaily ==
    /\ last.op = "weekly" /\ last.err = NoError
    /\ \E out \in {IF provider = "av"
                   THEN AvDaily(Handler, _calls, now, last.start, EmptyRemote)
                   ELSE FtxDaily(Handler, _calls, now, last.start, EmptyRemote)} :
          AllCalled("daily", last.start, last.start, 0, out)

\* access_all is in its loop over the days, with days left.
InLoop ==
    /\ last.op \in {"daily", "intraday", "skip"}
    /\ last.err = NoError
    /\ last.k < AccessAllPeriods

\* for day in days: self.intraday(day)
AllIntraday ==
    /\ InLoop
    /\ \E day \in {AccessAllDays(provider, last.start)[last.k + 1]} :
          /\ Relevant(provider, day)
          /\ \E out \in {IF provider = "av"
                         THEN AvIntraday(Handler, _calls, now, day, EmptyRemote)
                         ELSE FtxIntraday(Handler, _calls, now, day, EmptyRemote)} :
                AllCalled("intraday", day, last.start, last.k + 1, out)

\* for day in days: the day is a Saturday or a Sunday, AVDataProvider passes it.
AllSkip ==
    /\ InLoop
    /\ ~Relevant(provider, AccessAllDays(provider, last.start)[last.k + 1])
    /\ last' = [last EXCEPT !.op = "skip", !.k = @ + 1]
    /\ UNCHANGED <<now, memVars, storeVars, rateVars, lru, steps>>

\* The loop is over: access_all returns.
AllReturn ==
    /\ last.op \in {"daily", "intraday", "skip"}
    /\ last.err = NoError
    /\ last.k = AccessAllPeriods
    /\ last' = [last EXCEPT !.op = "return", !.done = TRUE]
    /\ UNCHANGED <<now, memVars, storeVars, rateVars, lru, steps>>

NextAll ==
    \/ AllMonthly
    \/ AllWeekly
    \/ AllDaily
    \/ AllIntraday
    \/ AllSkip
    \/ AllReturn

SpecAll == InitAll /\ [][NextAll]_vars

-----------------------------------------------------------------------------
(* SpecSlice: the remote slice that AVDataProvider.intraday computes for a *)
(* requested day when the cache misses.                                    *)

\* (_now().floor('d') - day.floor('d')).days
SliceDays(t, day) == (Floor(t) - Floor(day)) \div SecondsPerDay

\* A slice whose year is counted in 365-day spans: the variant that leaves
\* the vendor's years of twelve 30-day months.
AvSliceByCalendarYear(t, day) ==
    LET days == SliceDays(t, day)
    IN  [year |-> (days \div 365) + 1, month |-> ((days \div 30) % 12) + 1]

\* The month and year of "slice": f"year{year}month{month}".
AvSlice(t, day) ==
    LET days == SliceDays(t, day)
    IN  [year |-> (days \div 360) + 1, month |-> ((days \div 30) % 12) + 1]

\* The instants intraday is called at: a morning and a midnight.
SliceClock == {T0, Floor(T0)}

\* Seconds by which the requested day's time of day differs from the current one.
SliceOffsets == {0, 10 * 3600, 0 - 10 * 3600}

\* The days intraday is called with.
SliceDaysRequested(t) ==
    {t - a * SecondsPerDay + o : a \in (0 - MaxAhead)..MaxBack, o \in SliceOffsets}

InitSlice ==
    /\ now \in SliceClock
    /\ provider = "av"
    /\ reqs_per_minute = AvReqsPerMinute
    /\ _calls = << >> /\ sent = << >>
    /\ memory_cache_size = DefaultMemoryCacheSize
    /\ _memory_cache = EmptyMap /\ _memory_cache_history = << >> /\ lru = << >>
    /\ backend = "none" /\ files = EmptyMap /\ tables = EmptyMap
    /\ steps = 0
    /\ last = [op |-> "init", at |-> now, day |-> now, year |-> 0, month |-> 0]

\* The call intraday(day) misses the cache and computes the slice to request.
IntradaySlice(day) ==
    /\ last.op = "init"
    /\ \E slice \in {AvSlice(now, day)} :
          last' = [op |-> "slice", at |-> now, day |-> day,
                   year |-> slice.year, month |-> slice.month]
    /\ UNCHANGED <<now, memVars, storeVars, rateVars, lru, steps>>

NextSlice == \E day \in SliceDaysRequested(now) : IntradaySlice(day)

SpecSlice == InitSlice /\ [][NextSlice]_vars

-----------------------------------------------------------------------------
(* The claims.                                                             *)

\* The outbound calls sent in the 60 seconds that start with call i.
InWindow(i) ==
    {j \in DOMAIN sent : sent[i] <= sent[j] /\ sent[j] < sent[i] + 60}

\* C1 (SpecRate): for reqs_per_minute = L >= 1, after any sequence of
\* _api_request calls and clock advances, no rolling 60-second window holds
\* more than L outbound remote calls.
C1_RateBound ==
    reqs_per_minute >= 1 =>
        \A i \in DOMAIN sent : Cardinality(InWindow(i)) <= reqs_per_minute

\* C2 (SpecCache): for a capacity N >= 1, after any sequence of retrieve and
\* store calls (the gets and puts they make, the put of a fresh persistent hit
\* included), the memory cache never holds more than N entries.
C2_SizeWithinCapacity ==
    memory_cache_size >= 1 =>
        Cardinality(DOMAIN _memory_cache) <= memory_cache_size

\* Whether the persistent store holds a fragment under the key.
HasPersisted(key) ==
    IF backend = "csv"
    THEN \E r \in CacheRefs : /\ GetKeyByTimestamp(r[1], r[2]).key = key
                              /\ CsvRead(files, r[1], r[2]).exists
    ELSE \E i \in Intervals : \E j \in DOMAIN tables[i] :
            GetKeyByTimestamp(tables[i][j].ts, i).key = key

\* C2's case: the cache is full and a key that was stored is no longer in it,
\* so a put found the cache full and evicted.
C2_Evicted ==
    /\ memory_cache_size >= 1
    /\ backend = "csv"
    /\ Cardinality(DOMAIN _memory_cache) = memory_cache_size
    /\ \E r \in CacheRefs :
          /\ CsvRead(files, r[1], r[2]).exists
          /\ GetKeyByTimestamp(r[1], r[2]).key \notin DOMAIN _memory_cache

\* C3 (SpecMem): for every capacity N >= 1, a put that evicts removes the key
\* whose most recent access (successful get or put) is the oldest among the
\* cached keys.
C3_EvictsLeastRecentlyAccessed ==
    (memory_cache_size >= 1 /\ last.op = "put" /\ last.evicted # NoKey) =>
        last.evicted = last.oldest

\* The freshness policy by interval kind: an intraday fragment is never stale,
\* a daily one is fresh on the year and day-of-year of its leading timestamp,
\* a weekly one in its ISO week, a monthly one in its month.
IsStale(frame, interval, t) ==
    IF interval = "intraday" THEN FALSE
    ELSE IF interval = "daily"
    THEN ~(Year(frame[1].ts) = Year(t) /\ DayOfYear(frame[1].ts) = DayOfYear(t))
    ELSE IF interval = "weekly" THEN Week(frame[1].ts) # Week(t)
    ELSE Month(frame[1].ts) # Month(t)

\* The last step was a call of an interval accessor.
Accessor == last.op \in Intervals

\* C4 (Spec): a fragment that an accessor returns without a remote fetch, from
\* the memory cache or from the persistent store, is not stale under the policy
\* of its interval kind at the time of the call.
C4_CachedReturnIsFresh ==
    (Accessor /\ ~last.fetched /\ ~last.ret.isNone /\ last.ret.frame # << >>) =>
        ~IsStale(last.ret.frame, last.op, last.at)

\* The last step was a persistent-cache check of a non-empty daily fragment.
DailyCase ==
    /\ last.op = "check_persistent"
    /\ last.interval = "daily"
    /\ last.found # << >>

\* C5 (SpecPersist): the persistent-cache check returns a non-empty persisted
\* daily fragment if and only if its leading timestamp has the year and the
\* day-of-year of the current instant; otherwise it returns None.
C5_DailyFreshToday ==
    DailyCase =>
        (~last.ret.isNone <=>
            /\ Year(last.found[1].ts) = Year(last.at)
            /\ DayOfYear(last.found[1].ts) = DayOfYear(last.at))

\* The last step was an accessor call that missed the cache and whose remote
\* fetch returned an empty series.
EmptyCase ==
    /\ Accessor
    /\ last.fetched
    /\ ~last.remote.raises
    /\ last.remote.frame = << >>

\* C6 (Spec): an accessor whose cache read misses and whose remote fetch
\* returns an empty series returns None, raises nothing and writes neither the
\* memory cache nor the persistent store.
C6_EmptyFetchIsAbsent ==
    EmptyCase =>
        /\ last.ret.isNone
        /\ last.err = NoError
        /\ Handler = last.before

\* The last step was a _store_persistent_cache call that returned.
StoreCase == last.op = "store_persistent" /\ last.err = NoError

\* C7 (SpecPersist): after a _store_persistent_cache, of either backend, the
\* persisted state of the key holds every timestamp persisted before and every
\* row of the stored fragment with the stored values.
C7_UpsertMerges ==
    StoreCase =>
        /\ \A b \in last.before :
              \E c \in Persisted(files, tables, backend, last.time, last.interval) :
                 c.ts = b.ts
        /\ \A i \in DOMAIN last.data :
              last.data[i] \in Persisted(files, tables, backend, last.time,
                                         last.interval)

\* C8 (SpecCache): after any sequence of retrieve and store calls, every key
\* of the memory cache has a persisted fragment in the persistent store.
C8_MemorySubsetOfPersistent ==
    \A k \in DOMAIN _memory_cache : HasPersisted(k)

\* Whether two instants lie in the same period of the interval kind.
SamePeriod(t1, t2, interval) ==
    IF interval = "intraday"
    THEN Day(t1) = Day(t2) /\ Month(t1) = Month(t2) /\ Year(t1) = Year(t2)
    ELSE IF interval = "daily" THEN Year(t1) = Year(t2)
    ELSE TRUE

\* C9 (SpecKey): _get_key_by_timestamp returns a key for each of the four
\* interval kinds, two inputs get the same key if and only if they have the
\* same kind and the same period, and any other interval raises.
C9_KeyInjective ==
    last.op = "get_key" =>
        /\ last.interval1 \in Intervals =>
              (last.err1 = NoError /\ last.key1 # NoKey)
        /\ last.interval1 \notin Intervals =>
              (last.err1 = "RuntimeError" /\ last.key1 = NoKey)
        /\ (last.interval1 \in Intervals /\ last.interval2 \in Intervals) =>
              (last.key1 = last.key2 <=>
                  /\ last.interval1 = last.interval2
                  /\ SamePeriod(last.time1, last.time2, last.interval1))

\* C9's case: two different instants of one day got the same intraday key.
C9_SameDaySameKey ==
    /\ last.op = "get_key"
    /\ last.interval1 = "intraday" /\ last.interval2 = "intraday"
    /\ last.time1 # last.time2
    /\ last.key1 = last.key2
    /\ last.key1 # NoKey

\* C10 (SpecMem): with memory_cache_size 0 or 1, no memory-cache get or put
\* raises.
C10_SmallCapacityNeverRaises ==
    memory_cache_size \in {0, 1} => last.err = NoError

\* C11 (Spec): the fragment that intraday(day) or daily(year) returns holds
\* only bars whose key is the key of the requested day or year, from any cache
\* state and for any series the remote fetch returned.
C11_NoCrossPeriodBars ==
    (last.op \in {"intraday", "daily"} /\ ~last.ret.isNone) =>
        \A i \in DOMAIN last.ret.frame :
            GetKeyByTimestamp(last.ret.frame[i].ts, last.op).key
                = GetKeyByTimestamp(last.time, last.op).key

\* C11's case: the remote fetch returned bars of two periods and the accessor
\* returned a non-empty fragment.
C11_MultiPeriodFetch ==
    /\ last.op \in {"intraday", "daily"}
    /\ last.fetched
    /\ \E i, j \in DOMAIN last.remote.frame :
          GetKeyByTimestamp(last.remote.frame[i].ts, last.op).key
              # GetKeyByTimestamp(last.remote.frame[j].ts, last.op).key
    /\ ~last.ret.isNone
    /\ last.ret.frame # << >>

\* The ledger after one pass of the call-limit bookkeeping over `ledger'.
Acquired(ledger) ==
    IF Len(ledger) >= reqs_per_minute THEN Tail(ledger) ELSE ledger

\* C12 (Spec): an accessor call whose first cache read returns a fragment
\* returns it with no remote call and an unchanged ledger; one whose first
\* read returns None passes the call-limit bookkeeping once, sends exactly one
\* remote call after it and reads the cache at most once more; a call sends
\* never more than one remote call.
C12_HitOrOneFetch ==
    Accessor =>
        /\ Len(sent) <= last.sentBefore + 1
        /\ last.reads \in {1, 2}
        /\ (last.first.err = NoError /\ ~last.first.ret.isNone) =>
              /\ Len(sent) = last.sentBefore
              /\ _calls = last.ledger
              /\ last.reads = 1
              /\ last.ret = last.first.ret
              /\ last.err = NoError
        /\ (last.first.err = NoError /\ last.first.ret.isNone) =>
              /\ Len(sent) = last.sentBefore + 1
              /\ sent[Len(sent)] >= last.at
              /\ \/ _calls = Acquired(last.ledger)
                 \/ /\ Len(_calls) = Len(Acquired(last.ledger)) + 1
                    /\ SubSeq(_calls, 1, Len(_calls) - 1) = Acquired(last.ledger)
                    /\ _calls[Len(_calls)] >= sent[Len(sent)]
        /\ last.first.err # NoError =>
              /\ Len(sent) = last.sentBefore
              /\ _calls = last.ledger
              /\ last.err = last.first.err

\* C12's case: a call that missed, fetched and read the cache a second time.
C12_FetchedAndReread ==
    /\ Accessor
    /\ last.first.ret.isNone
    /\ last.fetched
    /\ last.reads = 2
    /\ ~last.ret.isNone

\* No two rows of the frame have the same timestamp.
UniqueTimestamps(frame) ==
    \A i, j \in DOMAIN frame : frame[i].ts = frame[j].ts => i = j

\* C13 (SpecPersist): a _store_persistent_cache that repeats the call before
\* it, with the same key and the same fragment, leaves the persistent store of
\* either backend as the first call left it, with no timestamp twice.
C13_StoreTwiceIsStoreOnce ==
    [][(/\ last.op = "store_persistent" /\ last.err = NoError
        /\ last'.op = "store_persistent" /\ last'.err = NoError
        /\ steps' = steps + 1
        /\ last'.time = last.time
        /\ last'.interval = last.interval
        /\ last'.data = last.data)
       => /\ files' = files
          /\ tables' = tables
          /\ UniqueTimestamps(Found(files', tables', backend, last.time,
                                    last.interval))]_vars

\* C13's case: a non-empty fragment was stored twice in a row.
C13_StoredTwice ==
    /\ last.op = "store_persistent"
    /\ last.repeat
    /\ last.err = NoError
    /\ last.data # << >>

\* C14 (SpecPersist): a _store_persistent_cache of a fragment with no bars
\* leaves the persistent store of either backend as it was: no file or row is
\* created and nothing persisted under the key is overwritten.
C14_EmptyStoreIsNoOp ==
    (last.op = "store_persistent" /\ last.data = << >>) =>
        /\ Persisted(files, tables, backend, last.time, last.interval) = last.before
        /\ backend = "csv" =>
              CsvRead(files, last.time, last.interval).exists = last.existed

\* C15 (SpecMem): _add_memory_cache of a key that is already cached changes
\* nothing: the cached fragments, the number of entries and the recency order
\* of the keys stay as they were and no entry is evicted.
C15_DuplicatePutIsNoOp ==
    (last.op = "put" /\ last.key \in DOMAIN last.before.cache) =>
        /\ last.err = NoError
        /\ last.evicted = NoKey
        /\ _memory_cache = last.before.cache
        /\ _memory_cache_history = last.before.history

\* C16 (SpecRate): for reqs_per_minute >= 1, every _api_request proceeds to
\* its remote call after a suspension of at most 61 seconds, whatever the
\* ledger holds and whatever the current time is.
C16_SuspensionBounded ==
    (reqs_per_minute >= 1 /\ last.op = "api_request") =>
        /\ last.slept \in 0..61
        /\ last.proceeded
        /\ last.err \in {NoError, "RemoteError"}

\* C16's case: a call that found the ledger full with a call of the same
\* second and was suspended for the longest time.
C16_LongestSuspension ==
    /\ last.op = "api_request"
    /\ last.age = 0
    /\ last.slept = 61
    /\ last.proceeded

\* The intraday calls of the trace, as positions.
IntradayCalls == {i \in DOMAIN last.trace : last.trace[i].op = "intraday"}

\* The days of the window first()..latest() at the start of access_all that
\* share the time of day of the days access_all iterates over.
WindowDays ==
    {d \in {AccessAllDays(provider, last.start)[1] + (k - 2) * SecondsPerDay :
               k \in 1..(AccessAllPeriods + 2)} :
        /\ First(provider, last.start) <= d
        /\ d <= Latest(provider, last.start)}

\* C17 (SpecAll): access_all calls monthly, weekly and daily(current year)
\* once each before any intraday call, then intraday exactly once for each
\* relevant day d with first() <= d <= latest() and for no other day.
C17_AccessAllCoversWindow ==
    last.done =>
        /\ Len(last.trace) >= 3
        /\ last.trace[1].op = "monthly"
        /\ last.trace[2].op = "weekly"
        /\ last.trace[3].op = "daily"
        /\ Year(last.trace[3].arg) = Year(last.start)
        /\ IntradayCalls = {i \in DOMAIN last.trace : i > 3}
        /\ \A d \in WindowDays :
              Relevant(provider, d) =>
                 Cardinality({i \in IntradayCalls : last.trace[i].arg = d}) = 1
        /\ \A i \in IntradayCalls :
              /\ First(provider, last.start) <= last.trace[i].arg
              /\ last.trace[i].arg <= Latest(provider, last.start)

\* The last step was a persistent-cache check of the given interval kind.
Checked(interval) == last.op = "check_persistent" /\ last.interval = interval

\* Whether the check found a fragment: a file for the CSV backend, rows for
\* the Postgres backend.
Present == IF backend = "csv" THEN last.existed ELSE last.found # << >>

\* The check returned the fragment it found, without raising.
ReturnedFound ==
    last.err = NoError /\ ~last.ret.isNone /\ last.ret.frame = last.found

\* The check returned None, without raising.
ReturnedNone == last.err = NoError /\ last.ret.isNone

\* C18 (SpecPersist): the persistent-cache check returns None when nothing is
\* persisted; it returns a persisted intraday fragment whatever the time; it
\* returns a persisted weekly fragment exactly when its leading timestamp has
\* the ISO week number of now, and a monthly one exactly when it has the month
\* number of now, and returns None otherwise.
C18_FreshnessByKind ==
    last.op = "check_persistent" =>
        /\ ~Present => ReturnedNone
        /\ (Present /\ last.interval = "intraday") => ReturnedFound
        /\ (Present /\ last.interval = "weekly" /\ last.found # << >>) =>
              IF Week(last.found[1].ts) = Week(last.at)
              THEN ReturnedFound ELSE ReturnedNone
        /\ (Present /\ last.interval = "monthly" /\ last.found # << >>) =>
              IF Month(last.found[1].ts) = Month(last.at)
              THEN ReturnedFound ELSE ReturnedNone

\* C18's case: a weekly fragment of another year, leading in the ISO week of
\* now, was returned as fresh.
C18_SameWeekOtherYear ==
    /\ Checked("weekly")
    /\ last.found # << >>
    /\ Year(last.found[1].ts) # Year(last.at)
    /\ Week(last.found[1].ts) = Week(last.at)
    /\ ReturnedFound

\* C19 (Spec): what the remote call or a persistent write raises during an
\* accessor call reaches the accessor's caller, and a remote call that raises
\* leaves the memory cache and the persistent store as they were.
C19_ErrorsPropagate ==
    (Accessor /\ last.fetched) =>
        /\ last.remote.raises =>
              /\ last.err = "RemoteError"
              /\ Handler = last.before
        /\ (~last.remote.raises /\ last.remote.fails
              /\ last.remote.frame # << >>) =>
              last.err = IF backend = "csv" THEN "OSError" ELSE "DatabaseError"

\* C19's case: the remote call raised while the memory cache held a fragment.
C19_RaisedWithCacheFilled ==
    /\ Accessor
    /\ last.fetched
    /\ last.remote.raises
    /\ last.err = "RemoteError"
    /\ last.before.cache # EmptyMap

\* The recency list with the key moved to its most-recently-used end.
MovedToEnd(history, key) ==
    SelectSeq(history, LAMBDA k : k # key) \o <<key>>

\* C20 (SpecMem): _check_memory_cache leaves the cached fragments and their
\* number as they were; on a hit it moves the key to the most-recently-used
\* end of the recency list if and only if the cache holds exactly
\* memory_cache_size entries, and it leaves the list as it was below capacity
\* and on a miss.
C20_GetPromotesOnlyWhenFull ==
    last.op = "get" =>
        /\ last.err = NoError
        /\ _memory_cache = last.before.cache
        /\ last.ret = IF last.key \in DOMAIN last.before.cache
                      THEN Some(last.before.cache[last.key]) ELSE None
        /\ _memory_cache_history =
              IF /\ last.key \in DOMAIN last.before.cache
                 /\ Cardinality(DOMAIN last.before.cache) = memory_cache_size
              THEN MovedToEnd(last.before.history, last.key)
              ELSE last.before.history

\* C20's case: a hit on a full cache moved the key in the recency list.
C20_HitOnFullCacheMoved ==
    /\ last.op = "get"
    /\ ~last.ret.isNone
    /\ Cardinality(DOMAIN last.before.cache) = memory_cache_size
    /\ _memory_cache_history # last.before.history

\* C21 (SpecCache): after store(t, kind, data) completes with a fragment that
\* holds bars, a memory-cache lookup of the derived key returns exactly that
\* fragment, also when the key was already cached.
C21_StoreMirroredInMemory ==
    (last.op = "store" /\ last.err = NoError /\ last.data # << >>) =>
        \E k \in {GetKeyByTimestamp(last.time, last.interval).key} :
            /\ k \in DOMAIN _memory_cache
            /\ _memory_cache[k] = last.data

\* Reference timestamps of the years around T0: the first and the last day of
\* 2023, T0 itself, a day of the next month, and the first day of 2024.
DailyRefs ==
    {Date(2023, 1, 1), T0, T0 + 30 * SecondsPerDay, Date(2023, 12, 31),
     Date(2024, 1, 1)}

\* C22 (SpecPersist): on the relational backend, _check_persistent_cache for
\* a daily key returns the same result for every reference timestamp that
\* derives that key, and a fragment it returns holds exactly the persisted
\* bars of the key's year.
C22_DailyLookupByKey ==
    (/\ last.op = "check_persistent" /\ backend = "postgres"
     /\ last.interval = "daily" /\ last.err = NoError) =>
        /\ \A t2 \in DailyRefs :
              GetKeyByTimestamp(t2, "daily") = GetKeyByTimestamp(last.time, "daily")
                 => PgCheckPersistentCache(Handler, memory_cache_size, last.at,
                                           t2, "daily").ret = last.ret
        /\ ~last.ret.isNone =>
              {last.ret.frame[i] : i \in DOMAIN last.ret.frame} = last.before

\* C23 (SpecRate): _api_request sleeps only if the ledger holds
\* reqs_per_minute entries and the oldest recorded call is at most 60 seconds
\* old; when the oldest recorded call is more than 60 seconds old, whatever
\* its age, the call proceeds without sleeping.
C23_SleepsOnlyWithinWindow ==
    last.op = "api_request" =>
        /\ last.slept > 0 =>
              /\ Len(last.before) >= reqs_per_minute
              /\ last.age \in 0..60
        /\ last.age > 60 => (last.slept = 0 /\ last.proceeded)

\* Whether the timestamps of the ledger are in non-decreasing order.
NonDecreasing(ledger) ==
    \A i \in 1..(Len(ledger) - 1) : ledger[i] <= ledger[i + 1]

\* C24 (SpecRate): for reqs_per_minute >= 1 the ledger _calls holds at most
\* reqs_per_minute timestamps, in non-decreasing order, and each successful
\* _api_request removes the oldest entry of a full ledger and appends exactly
\* one timestamp, taken after the remote call returned.
C24_LedgerBoundedAndOrdered ==
    reqs_per_minute >= 1 =>
        /\ Len(_calls) <= reqs_per_minute
        /\ NonDecreasing(_calls)
        /\ (last.op = "api_request" /\ last.err = NoError) =>
              /\ _calls = Append(Acquired(last.before), now)
              /\ sent # << >> /\ _calls[Len(_calls)] >= sent[Len(sent)]

\* C24's case: a successful call that found the ledger full, dropped its
\* oldest entry and recorded its own instant.
C24_ReplacedOldest ==
    /\ last.op = "api_request" /\ last.err = NoError
    /\ reqs_per_minute = MaxRate
    /\ Len(last.before) = reqs_per_minute
    /\ _calls = Append(Tail(last.before), now)
    /\ _calls[Len(_calls)] > sent[Len(sent)]

\* C25 (SpecMem): for a capacity N >= 1, after any sequence of memory-cache
\* gets and puts the recency list holds exactly the keys of the memory cache,
\* each once, no operation raises, and a key that a put evicts was in the map
\* and is no longer in it.
C25_HistoryMatchesCache ==
    memory_cache_size >= 1 =>
        /\ {_memory_cache_history[i] : i \in DOMAIN _memory_cache_history}
              = DOMAIN _memory_cache
        /\ Len(_memory_cache_history) = Cardinality(DOMAIN _memory_cache)
        /\ \A i, j \in DOMAIN _memory_cache_history :
              _memory_cache_history[i] = _memory_cache_history[j] => i = j
        /\ last.err = NoError
        /\ last.evicted # NoKey =>
              /\ last.evicted \in DOMAIN last.before.cache
              /\ last.evicted \notin DOMAIN _memory_cache

\* C25's case: a put into a full cache of two or more entries evicted the
\* head of the recency list, and the list still matches the map.
C25_EvictedHeadOfHistory ==
    /\ last.op = "put"
    /\ memory_cache_size >= 2
    /\ last.evicted # NoKey
    /\ last.evicted = Head(last.before.history)
    /\ Len(_memory_cache_history) = memory_cache_size
    /\ _memory_cache_history[Len(_memory_cache_history)] = last.key

\* C26 (SpecRate): an _api_request never leaves fewer timestamps in the call
\* ledger than it found, whether its remote call returns or raises.
C26_LedgerNeverShrinks ==
    last.op = "api_request" => Len(_calls) >= Len(last.before)

\* The age of the requested day in whole days: floor(now) - floor(day).
Age == DayNumber(last.at) - DayNumber(last.day)

\* C27 as stated (SpecSlice): for a day whose age a is within 1..719 the
\* slice has year in {1, 2}, month in 1..12 and 12*(year-1) + month =
\* a div 30 + 1; for a < 0 or a >= 720 the slice has year 0 or year >= 3.
C27_SliceAsStated ==
    last.op = "slice" =>
        /\ Age \in 1..719 =>
              /\ last.year \in {1, 2}
              /\ last.month \in 1..12
              /\ 12 * (last.year - 1) + last.month = (Age \div 30) + 1
        /\ (Age < 0 \/ Age >= 720) => (last.year = 0 \/ last.year >= 3)

\* C27 (SpecSlice): a day within first()..latest() has an age of 1..719 whole
\* days; for such an age the slice has year in {1, 2}, month in 1..12 and
\* 12*(year-1) + month = a div 30 + 1; for a < 0 or a >= 720 the slice is
\* not a valid one, its year being 0 or less, or 3 or more.
C27_SliceWithinWindow ==
    last.op = "slice" =>
        /\ (First("av", last.at) <= last.day /\ last.day <= Latest("av", last.at))
              => Age \in 1..719
        /\ Age \in 1..719 =>
              /\ last.year \in {1, 2}
              /\ last.month \in 1..12
              /\ 12 * (last.year - 1) + last.month = (Age \div 30) + 1
        /\ (Age < 0 \/ Age >= 720) => (last.year <= 0 \/ last.year >= 3)

\* C27's case: the oldest day of the window, in the last slice of the second
\* year.
C27_OldestDayOfWindow ==
    /\ last.op = "slice"
    /\ last.day = First("av", last.at)
    /\ Age = 719
    /\ last.year = 2 /\ last.month = 12

====
